---- MODULE Spec2Model ----
(***************************************************************************)
(* Distributed cloud storage: content addressing (pkg/types), splitter and *)
(* joiner (pkg/utils), AES-256-GCM sealing (internal/crypto) and the HTTP  *)
(* file handlers (internal/api).                                           *)
(*                                                                         *)
(* A byte is a number 0 .. 255; a []byte and a string are both sequences   *)
(* of bytes.                                                               *)
(***************************************************************************)
EXTENDS Integers, Sequences, FiniteSets, TLC

VARIABLES
    call,     \* the last library call: its function, arguments and result
    first,    \* the first identifier call made, with its result
    hasher,   \* the bytes written to the most recently used sha256 hasher
    files,    \* Server.files: file id -> FileInfo
    blobs,    \* the blob store: chunk id -> sealed blob
    stored,   \* per file id, the plaintext handed to the StoreFile that made files[id]
    resp,     \* the last HTTP response of the API server
    encKey,   \* the encryption key the chunk manager was constructed with
    tampered, \* the byte of a persisted blob that was changed behind the server
    handlers, \* the request handlers in flight, one per goroutine
    heap,     \* the byte arrays in memory that slices point into
    main      \* the entry point running: program, position, configuration, chunk manager

serverVars == <<files, blobs, stored, resp, encKey, tampered, handlers, heap, main>>
vars == <<call, first, hasher, serverVars>>

----------------------------------------------------------------------------
(* Bounds of the model *)

\* longest byte sequence handed to SplitData
MaxLen == 4
\* largest chunk size handed to SplitData
MaxChunkSize == 5
\* most negative chunk size handed to SplitData is -MinChunkSize
MinChunkSize == 1

\* the byte values the inputs are drawn from (one bit of the eight)
Byte == {0, 1}

\* all byte sequences of length 0 .. n
BytesUpTo(n) == UNION {[1 .. k -> Byte] : k \in 0 .. n}

Min(a, b) == IF a < b THEN a ELSE b

----------------------------------------------------------------------------
(* pkg/utils: SplitData and JoinChunks *)

\* mutant: the loop stops before a short last chunk
RECURSIVE SplitLoopDropTail(_, _, _, _)
SplitLoopDropTail(data, chunkSize, i, chunks) ==
    IF i + chunkSize <= Len(data)
    THEN SplitLoopDropTail(data, chunkSize, i + chunkSize,
                           Append(chunks, SubSeq(data, i + 1, i + chunkSize)))
    ELSE chunks

\* the loop of SplitData: i is the Go loop variable (0-based offset)
RECURSIVE SplitLoop(_, _, _, _)
SplitLoop(data, chunkSize, i, chunks) ==
    IF i < Len(data)
    THEN LET end == IF i + chunkSize > Len(data) THEN Len(data) ELSE i + chunkSize
         IN  SplitLoop(data, chunkSize, i + chunkSize,
                       Append(chunks, SubSeq(data, i + 1, end)))
    ELSE chunks

\* mutant: SplitData without its chunkSize <= 0 branch, empty input as one chunk
SplitDataOneEmpty(data, chunkSize) ==
    IF chunkSize <= 0 \/ Len(data) = 0
    THEN <<data>>
    ELSE SplitLoop(data, chunkSize, 0, <<>>)

\* mutant: chunkSize <= 0 yields no chunk at all
SplitDataNoGuard(data, chunkSize) ==
    IF chunkSize <= 0
    THEN <<>>
    ELSE SplitLoop(data, chunkSize, 0, <<>>)

\* a nil [][]byte and an empty one are both <<>>
SplitData(data, chunkSize) ==
    IF chunkSize <= 0
    THEN <<data>>
    ELSE SplitLoop(data, chunkSize, 0, <<>>)

RECURSIVE JoinLoop(_, _, _)
JoinLoop(chunks, k, result) ==
    IF k <= Len(chunks)
    THEN JoinLoop(chunks, k + 1, result \o chunks[k])
    ELSE result

\* mutant: the last chunk is not appended
JoinChunksDropLast(chunks) ==
    IF Len(chunks) = 0 THEN <<>>
    ELSE JoinLoop(SubSeq(chunks, 1, Len(chunks) - 1), 1, <<>>)

JoinChunks(chunks) == JoinLoop(chunks, 1, <<>>)

----------------------------------------------------------------------------
(* Library calls of the splitter: SplitData on any input, JoinChunks on the *)
(* chunks the last SplitData returned.                                      *)

\* record fields are written in the order TLC keeps them
NoCall == [fn |-> "none"]

IdleServer ==
    /\ files = <<>>
    /\ blobs = <<>>
    /\ stored = <<>>
    /\ resp = [op |-> "none"]
    /\ encKey = <<>>
    /\ tampered = <<>>
    /\ handlers = <<>>
    /\ heap = <<>>
    /\ main = <<>>

IdleIds ==
    /\ first = NoCall
    /\ hasher = <<>>

InitSplit ==
    /\ call = NoCall
    /\ IdleIds
    /\ IdleServer

CallSplitData ==
    \E data \in BytesUpTo(MaxLen), chunkSize \in (0 - MinChunkSize) .. MaxChunkSize :
        /\ call' = [fn |-> "SplitData", ret |-> SplitData(data, chunkSize),
                    args |-> <<data, chunkSize>>]
        /\ UNCHANGED <<first, hasher, serverVars>>

\* `from` keeps the arguments of the SplitData call whose chunks are joined
CallJoinChunks ==
    /\ call.fn = "SplitData"
    /\ call' = [fn |-> "JoinChunks", ret |-> JoinChunks(call.ret),
                args |-> <<call.ret>>, from |-> call.args]
    /\ UNCHANGED <<first, hasher, serverVars>>

NextSplit == CallSplitData \/ CallJoinChunks

SpecSplit == InitSplit /\ [][NextSplit]_vars

----------------------------------------------------------------------------
(* Claims about the splitter *)

\* C2: for every data (the empty one included) and every chunkSize > 0,
\* JoinChunks(SplitData(data, chunkSize)) equals data byte for byte.
C2_JoinSplit ==
    (call.fn = "JoinChunks" /\ call.from[2] > 0) => call.ret = call.from[1]

\* a join of several chunks and a remainder has happened
C2_Witness ==
    /\ call.fn = "JoinChunks"
    /\ call.from[2] = 2
    /\ Len(call.from[1]) = 3
    /\ Len(call.args[1]) = 2
    /\ call.ret = call.from[1]

\* C3: for non-empty data and chunkSize > 0, SplitData returns
\* ceil(len(data)/chunkSize) consecutive slices of data in input order; every
\* slice but the last has chunkSize bytes, the last has 1 .. chunkSize bytes.
C3_SplitShape ==
    (call.fn = "SplitData" /\ Len(call.args[1]) > 0 /\ call.args[2] > 0) =>
        LET n == Len(call.ret)
            L == Len(call.args[1])
            c == call.args[2]
        IN  /\ n = (L + c - 1) \div c
            /\ \A k \in 1 .. n :
                  /\ call.ret[k] = SubSeq(call.args[1], (k - 1) * c + 1, Min(k * c, L))
                  /\ k < n => Len(call.ret[k]) = c
            /\ Len(call.ret[n]) \in 1 .. c

\* a split into full chunks and a shorter last one has happened
C3_Witness ==
    /\ call.fn = "SplitData"
    /\ Len(call.args[1]) = 4
    /\ call.args[2] = 3
    /\ Len(call.ret) = 2
    /\ Len(call.ret[1]) = 3
    /\ Len(call.ret[2]) = 1

\* C4 as stated: SplitData on empty input yields exactly one segment, and
\* that segment is empty, whatever the chunk size.
C4_EmptyOneSegment ==
    (call.fn = "SplitData" /\ call.args[1] = <<>>) => call.ret = << <<>> >>

\* C4 amended: SplitData on empty input yields one empty segment when
\* chunkSize <= 0 and no segment at all when chunkSize > 0.
C4_EmptyAmended ==
    (call.fn = "SplitData" /\ call.args[1] = <<>>) =>
        /\ call.args[2] <= 0 => call.ret = << <<>> >>
        /\ call.args[2] > 0 => call.ret = <<>>

\* empty input has been split with a positive chunk size
C4_Witness ==
    /\ call.fn = "SplitData"
    /\ call.args[1] = <<>>
    /\ call.args[2] > 0
    /\ Len(call.ret) = 0

\* C5: for every data and every chunkSize <= 0, SplitData returns exactly
\* one segment, equal to the whole input.
C5_NonPositiveSize ==
    (call.fn = "SplitData" /\ call.args[2] <= 0) =>
        /\ Len(call.ret) = 1
        /\ call.ret[1] = call.args[1]

\* non-empty input has been split with a negative chunk size
C5_Witness ==
    /\ call.fn = "SplitData"
    /\ call.args[2] < 0
    /\ Len(call.args[1]) = 3
    /\ call.ret = <<call.args[1]>>

----------------------------------------------------------------------------
(* SplitData and JoinChunks in memory.  The heap is a sequence of byte     *)
(* arrays; a []byte is <<array, offset, len, cap>>, its bytes being the    *)
(* len bytes of the array after the offset; the nil slice is <<0,0,0,0>>.  *)

\* size of the array the caller's data lies in
ArrayLen == 3
\* largest capacity append may add beyond the bytes it needs
MaxSpare == 2

nilSlice == <<0, 0, 0, 0>>

\* the bytes of a slice
BytesOf(hp, s) == [i \in 1 .. s[3] |-> hp[s[1]][s[2] + i]]

\* the Go expression s[i:end]
SliceOf(s, i, end) == <<s[1], s[2] + i, end - i, s[4] - i>>

\* the loop of SplitData on slices: every chunk is data[i:end], a slice of
\* the caller's array
RECURSIVE SplitLoopSlices(_, _, _, _)
SplitLoopSlices(data, chunkSize, i, chunks) ==
    IF i < data[3]
    THEN SplitLoopSlices(data, chunkSize, i + chunkSize,
                         Append(chunks, SliceOf(data, i, Min(i + chunkSize, data[3]))))
    ELSE chunks

SplitDataSlices(data, chunkSize) ==
    IF chunkSize <= 0
    THEN <<data>>
    ELSE SplitLoopSlices(data, chunkSize, 0, <<>>)

\* the array of the heap with src written after position at
Written(arr, at, src) ==
    [i \in 1 .. Len(arr) |->
        IF i > at /\ i <= at + Len(src) THEN src[i - at] ELSE arr[i]]

\* append(result, chunk...): within the capacity of result the bytes are
\* written behind it in its own array; beyond it a new array is allocated,
\* spare bytes larger than needed, and both are copied there.  The value is
\* <<heap, slice>>.
appendBytes(hp, result, chunk, spare) ==
    IF result[3] + chunk[3] <= result[4]
    THEN IF chunk[3] = 0
         THEN <<hp, result>>
         ELSE <<[hp EXCEPT ![result[1]] =
                     Written(hp[result[1]], result[2] + result[3], BytesOf(hp, chunk))],
                <<result[1], result[2], result[3] + chunk[3], result[4]>>>>
    ELSE <<Append(hp, BytesOf(hp, result) \o BytesOf(hp, chunk)
                          \o [i \in 1 .. spare |-> 0]),
           <<Len(hp) + 1, 0, result[3] + chunk[3], result[3] + chunk[3] + spare>>>>

\* the loop of JoinChunks; m is <<heap, result>>
RECURSIVE JoinLoopSlices(_, _, _, _)
JoinLoopSlices(chunks, k, m, spare) ==
    IF k <= Len(chunks)
    THEN JoinLoopSlices(chunks, k + 1, appendBytes(m[1], m[2], chunks[k], spare), spare)
    ELSE m

\* mutant: the result starts as the first chunk instead of nil
JoinChunksOntoFirst(hp, chunks, spare) ==
    IF chunks = <<>> THEN <<hp, nilSlice>>
    ELSE JoinLoopSlices(chunks, 2, <<hp, chunks[1]>>, spare)

\* var result []byte is nil
JoinChunksSlices(hp, chunks, spare) ==
    JoinLoopSlices(chunks, 1, <<hp, nilSlice>>, spare)

\* the slices of the caller's array, array 1
CallerSlices ==
    UNION {{<<1, lo, hi - lo, ArrayLen - lo>> : hi \in lo .. ArrayLen} : lo \in 0 .. ArrayLen}

InitMem ==
    /\ call = NoCall
    /\ IdleIds
    /\ files = <<>>
    /\ blobs = <<>>
    /\ stored = <<>>
    /\ resp = [op |-> "none"]
    /\ encKey = <<>>
    /\ tampered = <<>>
    /\ handlers = <<>>
    /\ heap \in {<<arr>> : arr \in [1 .. ArrayLen -> Byte]}
    /\ main = <<>>

\* `from` keeps the heap as it was when the call was made
MemSplitData ==
    /\ Len(heap) = 1
    /\ \E data \in CallerSlices, chunkSize \in (0 - 1) .. ArrayLen :
        call' = [fn |-> "SplitData", ret |-> SplitDataSlices(data, chunkSize),
                 args |-> <<data, chunkSize>>, from |-> heap]
    /\ UNCHANGED <<first, hasher, files, blobs, stored, resp, encKey, tampered,
                   handlers, heap, main>>

MemJoined(chunks, m) ==
    /\ call' = [fn |-> "JoinChunks", ret |-> m[2], args |-> <<chunks>>, from |-> heap]
    /\ heap' = m[1]

\* JoinChunks on the chunks SplitData returned, or on any two slices of the
\* caller's array, which may overlap
MemJoinChunks ==
    /\ Len(heap) = 1
    /\ \E spare \in 0 .. MaxSpare :
        \/ /\ call.fn = "SplitData"
           /\ MemJoined(call.ret, JoinChunksSlices(heap, call.ret, spare))
        \/ \E c1 \in CallerSlices, c2 \in CallerSlices :
               MemJoined(<<c1, c2>>, JoinChunksSlices(heap, <<c1, c2>>, spare))
    /\ UNCHANGED <<first, hasher, files, blobs, stored, resp, encKey, tampered,
                   handlers, main>>

NextMem == MemSplitData \/ MemJoinChunks

SpecMem == InitMem /\ [][NextMem]_vars

\* two slices have a byte of memory in common
Shared(s, t) ==
    /\ s[1] = t[1]
    /\ \E i \in 1 .. s[3] : \E j \in 1 .. t[3] : s[2] + i = t[2] + j

\* C21: SplitData leaves the bytes of its input unchanged, JoinChunks leaves
\* the bytes of every input chunk unchanged, and the bytes of the result of
\* JoinChunks are memory of no input chunk.
C21_InputsUntouched ==
    /\ call.fn = "SplitData" =>
            /\ BytesOf(heap, call.args[1]) = BytesOf(call.from, call.args[1])
            /\ \A a \in 1 .. Len(call.from) : heap[a] = call.from[a]
    /\ call.fn = "JoinChunks" =>
            /\ \A k \in 1 .. Len(call.args[1]) :
                   /\ BytesOf(heap, call.args[1][k]) = BytesOf(call.from, call.args[1][k])
                   /\ ~Shared(call.ret, call.args[1][k])
            /\ \A a \in 1 .. Len(call.from) : heap[a] = call.from[a]

\* two overlapping chunks with spare capacity behind them were joined, the
\* second appended in place to the array allocated for the first
C21_Witness ==
    /\ call.fn = "JoinChunks"
    /\ call.args[1] = <<<<1, 0, 2, 3>>, <<1, 1, 2, 2>>>>
    /\ call.from = <<<<1, 0, 1>>>>
    /\ heap = <<<<1, 0, 1>>, <<1, 0, 0, 1>>>>
    /\ call.ret = <<2, 0, 4, 4>>
    /\ BytesOf(heap, call.ret) = <<1, 0, 0, 1>>

----------------------------------------------------------------------------
(* pkg/types: content addressing *)

\* longest file name handed to GenerateFileID
NameMaxLen == 2
\* longest content handed to GenerateFileID and CalculateHash
IdContentMaxLen == 2
\* longest chunk content handed to GenerateChunkID
ChunkContentMaxLen == 1
\* chunk indices are w * 256 + r with w in 0 .. MaxWraps, r in 0 .. MaxIndexLow
MaxWraps == 1
MaxIndexLow == 1
\* the number of values of a Go byte
ByteRange == 256

\* mutant: one package-level hasher, never reset between calls
sha256NewShared == hasher

\* sha256.New(): a hasher that has been written nothing
sha256New == <<>>

\* hasher.Write(p)
hasherWrite(h, p) == h \o p

\* hasher.Sum(nil): the digest is taken as collision-free, so it is
\* represented by the bytes that were written to the hasher
hasherSum(h) == h

\* one lower-case hexadecimal digit, as its ASCII code
hexDigit(d) == IF d < 10 THEN 48 + d ELSE 87 + d

\* hex.EncodeToString: two digits per byte, high nibble first
hexEncodeToString(bytes) ==
    [k \in 1 .. 2 * Len(bytes) |->
        LET b == bytes[(k + 1) \div 2]
        IN  IF k % 2 = 1 THEN hexDigit(b \div 16) ELSE hexDigit(b % 16)]

\* the Go conversion byte(index): the low eight bits
byteOf(index) == index % ByteRange

\* the hasher of GenerateFileID after its two writes
FileIDHasher(name, content) ==
    hasherWrite(hasherWrite(sha256New, name), content)

GenerateFileID(name, content) ==
    hexEncodeToString(hasherSum(FileIDHasher(name, content)))

\* the hasher of GenerateChunkID after its three writes
ChunkIDHasher(fileID, index, content) ==
    hasherWrite(hasherWrite(hasherWrite(sha256New, fileID), <<byteOf(index)>>), content)

GenerateChunkID(fileID, index, content) ==
    hexEncodeToString(hasherSum(ChunkIDHasher(fileID, index, content)))

CalculateHash(data) ==
    hexEncodeToString(hasherSum(hasherWrite(sha256New, data)))

----------------------------------------------------------------------------
(* Library calls of content addressing, in any order and number *)

Names == BytesUpTo(NameMaxLen) \ {<<>>}
IdContents == BytesUpTo(IdContentMaxLen)
ChunkContents == BytesUpTo(ChunkContentMaxLen)
ChunkIndexes == {w * ByteRange + r : w \in 0 .. MaxWraps, r \in 0 .. MaxIndexLow}
\* two file ids, as GenerateFileID makes them
SomeFileIDs == {GenerateFileID(<<b>>, <<>>) : b \in Byte}

InitIds ==
    /\ call = NoCall
    /\ IdleIds
    /\ IdleServer

\* the call r has returned, leaving buf in its hasher
Returned(r, buf) ==
    /\ call' = r
    /\ first' = IF first.fn = "none" THEN r ELSE first
    /\ hasher' = buf
    /\ UNCHANGED serverVars

CallGenerateFileID ==
    \E name \in Names, content \in IdContents :
        Returned([fn |-> "GenerateFileID", ret |-> GenerateFileID(name, content),
                  args |-> <<name, content>>],
                 FileIDHasher(name, content))

CallGenerateChunkID ==
    \E fileID \in SomeFileIDs, index \in ChunkIndexes, content \in ChunkContents :
        Returned([fn |-> "GenerateChunkID",
                  ret |-> GenerateChunkID(fileID, index, content),
                  args |-> <<fileID, index, content>>],
                 ChunkIDHasher(fileID, index, content))

CallCalculateHash ==
    \E data \in IdContents :
        Returned([fn |-> "CalculateHash", ret |-> CalculateHash(data),
                  args |-> <<data>>],
                 hasherWrite(sha256New, data))

NextIds == CallGenerateFileID \/ CallGenerateChunkID \/ CallCalculateHash

SpecIds == InitIds /\ [][NextIds]_vars

----------------------------------------------------------------------------
(* Claims about content addressing: `first` is the first call made, `call` *)
(* the latest one, with any calls in between.                              *)

BothAre(fn) == first.fn = fn /\ call.fn = fn

\* C6: for a fixed file id and fixed chunk content, GenerateChunkID returns
\* different identifiers for any two different non-negative chunk indices,
\* indices that differ by a multiple of 256 included.
C6_ChunkIndexDistinct ==
    ( /\ BothAre("GenerateChunkID")
      /\ first.args[1] = call.args[1]
      /\ first.args[3] = call.args[3]
      /\ first.args[2] # call.args[2] ) => first.ret # call.ret

\* C7: GenerateFileID differs whenever the name or the content differs, also
\* when only the boundary between name and content is shifted.
C7_FileIDDistinct ==
    (BothAre("GenerateFileID") /\ first.args # call.args) => first.ret # call.ret

\* C8: GenerateFileID, GenerateChunkID and CalculateHash are deterministic
\* and history-independent: two calls with identical arguments return the
\* identical identifier, whatever calls were made in between.
C8_Deterministic ==
    (first.fn = call.fn /\ first.fn # "none" /\ first.args = call.args) =>
        first.ret = call.ret

\* the first call has been repeated after a call that wrote other bytes
C8_Witness ==
    /\ BothAre("GenerateChunkID")
    /\ first.args = call.args
    /\ first.args[2] = ByteRange
    /\ first.ret = call.ret
    /\ hasher # <<>>

----------------------------------------------------------------------------
(* internal/crypto: AES-256-GCM sealing                                     *)
(*                                                                         *)
(* A sealed blob is a sequence of cells.  A nonce or ciphertext byte b is   *)
(* the cell <<b>>.  The GCM tag is taken as unforgeable: its j-th byte is   *)
(* a cell that starts with j, and the first one goes on with the key, the  *)
(* nonce and the ciphertext, so that no other key, nonce or ciphertext     *)
(* produces the same tag.                                                  *)

\* the key length Encrypt and Decrypt accept
KeySize == 32
\* gcm.NonceSize() of the standard GCM
NonceSize == 12
\* the length of the tag gcm.Seal appends
TagSize == 16
\* longest plaintext handed to Encrypt
PlainMaxLen == 2

Nil == "nil"
ErrKeyLength == "key must be 32 bytes for AES-256"
ErrTooShort == "ciphertext too short"
ErrOpen == "cipher: message authentication failed"
ErrRand == "rand: read failed"

\* a Go (nil, err) return
Fail(e) == [err |-> e, out |-> <<>>]
\* a Go (bytes, nil) return
Ok(bytes) == [err |-> Nil, out |-> bytes]

\* bitwise exclusive or of two bytes
RECURSIVE xor(_, _)
xor(a, b) ==
    IF a = 0 /\ b = 0 THEN 0
    ELSE (((a % 2) + (b % 2)) % 2) + 2 * xor(a \div 2, b \div 2)

\* the cells of plain bytes, and the bytes of cells
Cells(bytes) == [i \in 1 .. Len(bytes) |-> <<bytes[i]>>]
RECURSIVE Flat(_)
Flat(cells) == IF cells = <<>> THEN <<>> ELSE Head(cells) \o Flat(Tail(cells))

\* the i-th byte of the counter-mode key stream of (key, nonce)
keystream(key, nonce, i) ==
    xor(key[((i - 1) % Len(key)) + 1], nonce[((i - 1) % Len(nonce)) + 1])

\* counter mode: the same operation encrypts and decrypts
ctr(key, nonce, bytes) ==
    [i \in 1 .. Len(bytes) |-> xor(bytes[i], keystream(key, nonce, i))]

gcmTag(key, nonce, ct) ==
    [j \in 1 .. TagSize |-> IF j = 1 THEN <<j>> \o key \o nonce \o ct ELSE <<j, j>>]

\* mutant: gcm.Seal(nil, ...), the nonce is not put in front of the blob
gcmSealNoNonce(key, dst, nonce, plaintext) ==
    LET ct == ctr(key, nonce, plaintext)
    IN  Cells(ct) \o gcmTag(key, nonce, ct)

\* gcm.Seal(dst, nonce, plaintext, nil): appends ciphertext and tag to dst
gcmSeal(key, dst, nonce, plaintext) ==
    LET ct == ctr(key, nonce, plaintext)
    IN  dst \o Cells(ct) \o gcmTag(key, nonce, ct)

\* mutant: the tag is not compared
gcmOpenNoAuth(key, nonce, sealed) ==
    Ok(ctr(key, Flat(nonce), Flat(SubSeq(sealed, 1, Len(sealed) - TagSize))))

\* gcm.Open(nil, nonce, sealed, nil); nonce and sealed are cells
gcmOpen(key, nonce, sealed) ==
    IF Len(sealed) < TagSize
    THEN Fail(ErrOpen)
    ELSE LET ct  == Flat(SubSeq(sealed, 1, Len(sealed) - TagSize))
             tag == SubSeq(sealed, Len(sealed) - TagSize + 1, Len(sealed))
         IN  IF tag = gcmTag(key, Flat(nonce), ct)
             THEN Ok(ctr(key, Flat(nonce), ct))
             ELSE Fail(ErrOpen)

\* rnd is <<failed, bytes>>: what io.ReadFull(rand.Reader, nonce) does
Encrypt(data, key, rnd) ==
    IF Len(key) # KeySize
    THEN Fail(ErrKeyLength)
    ELSE IF rnd[1]
    THEN Fail(ErrRand)
    ELSE Ok(gcmSeal(key, Cells(rnd[2]), rnd[2], data))

\* mutant: the length of the blob is checked before the length of the key
DecryptLengthFirst(ciphertext, key) ==
    IF Len(ciphertext) < NonceSize
    THEN Fail(ErrTooShort)
    ELSE IF Len(key) # KeySize
    THEN Fail(ErrKeyLength)
    ELSE gcmOpen(key, SubSeq(ciphertext, 1, NonceSize),
                 SubSeq(ciphertext, NonceSize + 1, Len(ciphertext)))

\* mutant: the nonce is not cut off the blob that is handed to gcm.Open
DecryptKeepNonce(ciphertext, key) ==
    IF Len(key) # KeySize
    THEN Fail(ErrKeyLength)
    ELSE IF Len(ciphertext) < NonceSize
    THEN Fail(ErrTooShort)
    ELSE gcmOpen(key, SubSeq(ciphertext, 1, NonceSize), ciphertext)

Decrypt(ciphertext, key) ==
    IF Len(key) # KeySize
    THEN Fail(ErrKeyLength)
    ELSE IF Len(ciphertext) < NonceSize
    THEN Fail(ErrTooShort)
    ELSE gcmOpen(key, SubSeq(ciphertext, 1, NonceSize),
                 SubSeq(ciphertext, NonceSize + 1, Len(ciphertext)))

----------------------------------------------------------------------------
(* Library calls of the crypto package: Encrypt on any input; Decrypt of   *)
(* the blob the last Encrypt returned, as it is, truncated or with one byte *)
(* changed; Decrypt of a blob that no Encrypt made.                        *)

KeyOf(n, b) == [i \in 1 .. n |-> b]
GoodKeys == {KeyOf(KeySize, b) : b \in Byte}
\* keys of a wrong length, the shorter AES key lengths among them
BadKeys == {KeyOf(n, 0) : n \in {0, 16, KeySize - 1, KeySize + 1}}
Keys == GoodKeys \cup BadKeys
Rands == {<<FALSE, KeyOf(NonceSize, b)>> : b \in Byte} \cup {<<TRUE, <<>>>>}

\* the lengths of the blobs that no Encrypt made: around the nonce size and
\* around the size of a sealed empty plaintext
RawLens == {0, NonceSize - 1, NonceSize, NonceSize + TagSize - 1,
            NonceSize + TagSize, NonceSize + TagSize + 1}

\* the blob with the byte at position p replaced by another one
Modified(blob, p) ==
    [blob EXCEPT ![p] = IF blob[p] = <<0>> THEN <<1>> ELSE <<0>>]

InitCrypto ==
    /\ call = NoCall
    /\ IdleIds
    /\ IdleServer

CallEncrypt ==
    \E data \in BytesUpTo(PlainMaxLen), key \in Keys, rnd \in Rands :
        /\ call' = [fn |-> "Encrypt", ret |-> Encrypt(data, key, rnd),
                    args |-> <<data, key, rnd>>]
        /\ UNCHANGED <<first, hasher, serverVars>>

\* `from` keeps the plaintext and key of the Encrypt call, and what was done
\* to its blob: <<"none">>, <<"truncated", length>> or <<"modified", position>>
CallDecrypt ==
    /\ call.fn = "Encrypt"
    /\ call.ret.err = Nil
    /\ LET sealed == call.ret.out
       IN  \E key \in Keys,
              how \in {<<"none">>}
                      \cup {<<"truncated", n>> : n \in 0 .. (Len(sealed) - 1)}
                      \cup {<<"modified", p>> : p \in 1 .. Len(sealed)} :
             LET blob == CASE how[1] = "none" -> sealed
                           [] how[1] = "truncated" -> SubSeq(sealed, 1, how[2])
                           [] how[1] = "modified" -> Modified(sealed, how[2])
             IN  call' = [fn |-> "Decrypt", ret |-> Decrypt(blob, key),
                          args |-> <<blob, key>>,
                          from |-> <<call.args[1], call.args[2], how>>]
    /\ UNCHANGED <<first, hasher, serverVars>>

CallDecryptRaw ==
    \E n \in RawLens, key \in Keys :
        /\ call' = [fn |-> "Decrypt", ret |-> Decrypt(Cells(KeyOf(n, 0)), key),
                    args |-> <<Cells(KeyOf(n, 0)), key>>,
                    from |-> <<<<>>, <<>>, <<"raw">>>>]
        /\ UNCHANGED <<first, hasher, serverVars>>

NextCrypto == CallEncrypt \/ CallDecrypt \/ CallDecryptRaw

SpecCrypto == InitCrypto /\ [][NextCrypto]_vars

----------------------------------------------------------------------------
(* Claims about the crypto package *)

\* the last call was a Decrypt, with a key of the right length, of an
\* Encrypt output that was truncated or modified or sealed under another key
DecryptOfDamaged ==
    /\ call.fn = "Decrypt"
    /\ call.from[3][1] # "raw"
    /\ Len(call.args[2]) = KeySize
    /\ call.from[3][1] # "none" \/ call.args[2] # call.from[2]

\* C9 as stated: Decrypt of a truncation (of any length, also shorter than
\* the nonce) or byte-modification of an Encrypt output, or with another key
\* than the sealing key, fails with the authentication-failure error and
\* returns no plaintext bytes.
C9_DamagedFailsAuth ==
    DecryptOfDamaged => (call.ret.err = ErrOpen /\ call.ret.out = <<>>)

\* C9 amended: such a Decrypt fails and returns no plaintext bytes; the
\* error is the authentication failure when the blob has at least NonceSize
\* bytes, and "ciphertext too short" when it has fewer.
C9_DamagedFails ==
    DecryptOfDamaged =>
        /\ call.ret.out = <<>>
        /\ Len(call.args[1]) >= NonceSize => call.ret.err = ErrOpen
        /\ Len(call.args[1]) < NonceSize => call.ret.err = ErrTooShort

\* a blob sealed from a non-empty plaintext, with a byte of its ciphertext
\* changed, has been refused under the sealing key
C9_Witness ==
    /\ DecryptOfDamaged
    /\ call.from[3] = <<"modified", NonceSize + 1>>
    /\ Len(call.from[1]) = PlainMaxLen
    /\ call.args[2] = call.from[2]
    /\ call.ret = Fail(ErrOpen)

\* C10: Encrypt and Decrypt fail with the invalid-key-length error and
\* return no output bytes whenever the key is not exactly 32 bytes long, for
\* every input, before any other processing of the input.
C10_KeyLength ==
    /\ (call.fn = "Encrypt" /\ Len(call.args[2]) # KeySize) =>
            call.ret = Fail(ErrKeyLength)
    /\ (call.fn = "Decrypt" /\ Len(call.args[2]) # KeySize) =>
            call.ret = Fail(ErrKeyLength)

\* a blob shorter than the nonce has been refused for its 16-byte key
C10_Witness ==
    /\ call.fn = "Decrypt"
    /\ Len(call.args[2]) = 16
    /\ Len(call.args[1]) < NonceSize
    /\ call.ret = Fail(ErrKeyLength)

\* C11: for every plaintext p, the empty one included, and every 32-byte
\* key k, Decrypt(Encrypt(p, k), k) succeeds and returns p whichever nonce
\* Encrypt drew; the sealed blob is the nonce followed by the ciphertext with
\* its tag, so Decrypt is given the blob and the key only.
C11_DecryptEncrypt ==
    /\ (call.fn = "Encrypt" /\ call.ret.err = Nil) =>
            /\ SubSeq(call.ret.out, 1, NonceSize) = Cells(call.args[3][2])
            /\ Len(call.ret.out) = NonceSize + Len(call.args[1]) + TagSize
    /\ (/\ call.fn = "Decrypt"
        /\ call.from[3] = <<"none">>
        /\ call.args[2] = call.from[2]) =>
            call.ret = Ok(call.from[1])

\* a blob sealed from a plaintext of PlainMaxLen bytes under the key of ones,
\* with the nonce of ones, has been opened under that key
C11_Witness ==
    /\ call.fn = "Decrypt"
    /\ call.from[3] = <<"none">>
    /\ call.args[2] = call.from[2]
    /\ call.args[2] = KeyOf(KeySize, 1)
    /\ SubSeq(call.args[1], 1, NonceSize) = Cells(KeyOf(NonceSize, 1))
    /\ Len(call.from[1]) = PlainMaxLen
    /\ call.ret.err = Nil
    /\ call.ret.out = call.from[1]

----------------------------------------------------------------------------
(* pkg/utils: GetStoragePath.  A string is the sequence of its bytes; the  *)
(* bytes used are 47 '/', 46 '.', 97 'a', 98 'b' and 115 's'.              *)

\* longest id handed to GetStoragePath
PathIdMaxLen == 3

ErrPanic == "panic"

\* strings.Split(path, "/") from position i on, cur being the piece so far
RECURSIVE SplitSlash(_, _, _)
SplitSlash(path, i, cur) ==
    IF i > Len(path) THEN <<cur>>
    ELSE IF path[i] = 47 THEN <<cur>> \o SplitSlash(path, i + 1, <<>>)
    ELSE SplitSlash(path, i + 1, Append(cur, path[i]))

\* strings.Join(elems, "/")
RECURSIVE JoinSlash(_)
JoinSlash(elems) ==
    IF elems = <<>> THEN <<>>
    ELSE IF Len(elems) = 1 THEN elems[1]
    ELSE elems[1] \o <<47>> \o JoinSlash(Tail(elems))

\* the loop of filepath.Clean over the path elements: empty elements and "."
\* are dropped, ".." removes the element before it, is dropped at the root,
\* and is kept in front of a relative path
RECURSIVE CleanLoop(_, _, _, _)
CleanLoop(elems, i, out, rooted) ==
    IF i > Len(elems) THEN out
    ELSE IF elems[i] = <<>> \/ elems[i] = <<46>>
    THEN CleanLoop(elems, i + 1, out, rooted)
    ELSE IF elems[i] = <<46, 46>>
    THEN IF out # <<>> /\ out[Len(out)] # <<46, 46>>
         THEN CleanLoop(elems, i + 1, SubSeq(out, 1, Len(out) - 1), rooted)
         ELSE IF rooted
         THEN CleanLoop(elems, i + 1, out, rooted)
         ELSE CleanLoop(elems, i + 1, Append(out, elems[i]), rooted)
    ELSE CleanLoop(elems, i + 1, Append(out, elems[i]), rooted)

\* filepath.Clean on a Unix system
CleanRooted(path, rooted) ==
    (IF rooted THEN <<47>> ELSE <<>>)
        \o JoinSlash(CleanLoop(SplitSlash(path, 1, <<>>), 1, <<>>, rooted))

Clean(path) ==
    IF path = <<>> THEN <<46>>
    ELSE IF CleanRooted(path, path[1] = 47) = <<>> THEN <<46>>
    ELSE CleanRooted(path, path[1] = 47)

\* filepath.Join: the elements from the first non-empty one on are joined
\* with "/" and the result is cleaned; "" when every element is empty
RECURSIVE filepathJoin(_)
filepathJoin(elems) ==
    IF elems = <<>> THEN <<>>
    ELSE IF elems[1] = <<>> THEN filepathJoin(Tail(elems))
    ELSE Clean(JoinSlash(elems))

\* mutant: the shard directory is left out of the path
GetStoragePathFlat(baseDir, fileID) ==
    IF Len(fileID) < 2
    THEN Fail(ErrPanic)
    ELSE Ok(filepathJoin(<<baseDir, fileID>>))

\* fileID[:2] panics when the id has fewer than two bytes
GetStoragePath(baseDir, fileID) ==
    IF Len(fileID) < 2
    THEN Fail(ErrPanic)
    ELSE Ok(filepathJoin(<<baseDir, SubSeq(fileID, 1, 2), fileID>>))

\* the base directories: "", "/", ".", "s", "/s", "/s/" and "../s"
BaseDirs == {<<>>, <<47>>, <<46>>, <<115>>, <<47, 115>>, <<47, 115, 47>>,
             <<46, 46, 47, 115>>}
\* the ids: every string of 'a', 'b', '/' and '.' up to PathIdMaxLen bytes
PathIds == UNION {[1 .. n -> {97, 98, 47, 46}] : n \in 0 .. PathIdMaxLen}

\* two calls with the same base directory
CallGetStoragePath ==
    /\ call = first
    /\ \E baseDir \in BaseDirs, fileID \in PathIds :
        /\ IF first.fn = "none" THEN TRUE ELSE baseDir = first.args[1]
        /\ call' = [fn |-> "GetStoragePath", ret |-> GetStoragePath(baseDir, fileID),
                    args |-> <<baseDir, fileID>>]
        /\ first' = IF first.fn = "none" THEN call' ELSE first
    /\ UNCHANGED <<hasher, serverVars>>

SpecPath == InitSplit /\ [][CallGetStoragePath]_vars

\* the text "<baseDir>/<first two characters of the id>/<id>"
PathLiteral(baseDir, fileID) ==
    baseDir \o <<47>> \o SubSeq(fileID, 1, 2) \o <<47>> \o fileID

\* the position of the last '/' of the path, 0 when it has none
LastSlash(path) ==
    IF \E i \in 1 .. Len(path) : path[i] = 47
    THEN CHOOSE i \in 1 .. Len(path) :
             path[i] = 47 /\ \A j \in (i + 1) .. Len(path) : path[j] # 47
    ELSE 0

\* filepath.Dir: the directory a path lies in
Dir(path) == Clean(SubSeq(path, 1, LastSlash(path)))

\* an id of at least two bytes
TwoChars(c) == c.fn = "GetStoragePath" /\ Len(c.args[2]) >= 2

\* a base directory in the form filepath.Clean leaves it, other than the
\* root and "."
CleanBase(baseDir) ==
    baseDir # <<>> /\ baseDir # <<47>> /\ baseDir # <<46>> /\ Clean(baseDir) = baseDir

\* an id of at least two bytes with no '/' that does not begin with ".."
PlainId(c) ==
    /\ TwoChars(c)
    /\ \A i \in 1 .. Len(c.args[2]) : c.args[2][i] # 47
    /\ SubSeq(c.args[2], 1, 2) # <<46, 46>>

\* C18 as stated: for every base directory and every id of at least two
\* characters GetStoragePath returns <baseDir>/<first two characters>/<id>;
\* two ids lie in the same shard directory exactly when their first two
\* characters are equal, and distinct ids get distinct paths.
C18_StoragePath ==
    /\ TwoChars(call) =>
            call.ret = Ok(PathLiteral(call.args[1], call.args[2]))
    /\ (TwoChars(first) /\ TwoChars(call)) =>
            /\ (Dir(first.ret.out) = Dir(call.ret.out))
                    <=> (SubSeq(first.args[2], 1, 2) = SubSeq(call.args[2], 1, 2))
            /\ first.args[2] # call.args[2] => first.ret.out # call.ret.out

\* C18 amended: the same, for base directories in clean form other than the
\* root and ".", and ids that hold no '/' and do not begin with "..".
C18_StoragePathClean ==
    /\ (PlainId(call) /\ CleanBase(call.args[1])) =>
            call.ret = Ok(PathLiteral(call.args[1], call.args[2]))
    /\ (PlainId(first) /\ PlainId(call) /\ CleanBase(call.args[1])) =>
            /\ (Dir(first.ret.out) = Dir(call.ret.out))
                    <=> (SubSeq(first.args[2], 1, 2) = SubSeq(call.args[2], 1, 2))
            /\ first.args[2] # call.args[2] => first.ret.out # call.ret.out

\* "/s" with the ids "aab" and then "aaa": one shard directory, two paths
C18_Witness ==
    /\ first.fn = "GetStoragePath" /\ call.fn = "GetStoragePath"
    /\ first.args = <<<<47, 115>>, <<97, 97, 98>>>>
    /\ call.args = <<<<47, 115>>, <<97, 97, 97>>>>
    /\ first.ret.out = <<47, 115, 47, 97, 97, 47, 97, 97, 98>>
    /\ call.ret.out = <<47, 115, 47, 97, 97, 47, 97, 97, 97>>
    /\ Dir(call.ret.out) = <<47, 115, 47, 97, 97>>

----------------------------------------------------------------------------
(* pkg/utils: ValidateFileID and GenerateRandomID.                         *)

\* the length of a file id, in bytes
FileIDLen == 64
\* the length of the short ids tried
ShortIdLen == 5
\* longest id asked of GenerateRandomID
RandomIdMaxLen == 6

\* encoding/hex fromHexChar: '0'..'9', 'a'..'f' and 'A'..'F' are digits
IsHexChar(c) ==
    \/ c \in 48 .. 57
    \/ c \in 97 .. 102
    \/ c \in 65 .. 70

ErrInvalidByte == "encoding/hex: invalid byte"
ErrLength == "encoding/hex: odd length hex string"

\* the error of hex.Decode: the bytes are taken two at a time from position
\* j - 1 on; the first byte that is no digit is reported, and a string of odd
\* length with digits only is reported last
RECURSIVE hexDecodeErr(_, _)
hexDecodeErr(src, j) ==
    IF j <= Len(src)
    THEN IF ~IsHexChar(src[j - 1]) \/ ~IsHexChar(src[j])
         THEN ErrInvalidByte
         ELSE hexDecodeErr(src, j + 2)
    ELSE IF Len(src) % 2 = 1
    THEN IF ~IsHexChar(src[j - 1]) THEN ErrInvalidByte ELSE ErrLength
    ELSE Nil

\* mutant: the length is not looked at
ValidateFileIDAnyLength(fileID) == hexDecodeErr(fileID, 2) = Nil

ValidateFileID(fileID) ==
    IF Len(fileID) # FileIDLen
    THEN FALSE
    ELSE hexDecodeErr(fileID, 2) = Nil

\* the bytes written over a string of digits: the neighbours of the digit
\* ranges, the ends of the ranges, and the two bytes of U+00E9 together and
\* alone
Patches ==
    {<<>>, <<195, 169>>}
        \cup {<<c>> : c \in {47, 48, 57, 58, 64, 65, 70, 71, 96, 97, 102, 103, 195, 169}}

\* n times the byte c, with the patch written at position p
Patched(n, c, p, patch) ==
    [i \in 1 .. n |->
        IF i >= p /\ i < p + Len(patch) THEN patch[i - p + 1] ELSE c]

\* one call is looked at
CallValidateFileID ==
    /\ call = NoCall
    /\ \E n \in {0, ShortIdLen, FileIDLen - 1, FileIDLen, FileIDLen + 1},
          c \in {49, 98}, patch \in Patches :
        \E p \in 1 .. (n + 1 - Len(patch)) :
            call' = [fn |-> "ValidateFileID",
                     ret |-> ValidateFileID(Patched(n, c, p, patch)),
                     args |-> <<Patched(n, c, p, patch)>>]
    /\ UNCHANGED <<first, hasher, serverVars>>

\* Go's integer division, which rounds towards zero
goDiv(a, b) == IF a >= 0 THEN a \div b ELSE 0 - ((0 - a) \div b)

\* make([]byte, length/2) panics on a negative size; rnd is what rand.Read
\* puts in the bytes, ok whether it succeeds
GenerateRandomID(length, rnd, ok) ==
    IF goDiv(length, 2) < 0 THEN Fail(ErrPanic)
    ELSE IF ~ok THEN Fail(ErrRand)
    ELSE Ok(hexEncodeToString(rnd))

CallGenerateRandomID ==
    /\ call = NoCall
    /\ \E length \in (0 - 3) .. RandomIdMaxLen, ok \in BOOLEAN :
        \E rnd \in [1 .. (IF length < 0 THEN 0 ELSE goDiv(length, 2)) -> Byte] :
            call' = [fn |-> "GenerateRandomID",
                     ret |-> GenerateRandomID(length, rnd, ok),
                     args |-> <<length>>]
    /\ UNCHANGED <<first, hasher, serverVars>>

NextUtils == CallValidateFileID \/ CallGenerateRandomID

SpecUtils == InitSplit /\ [][NextUtils]_vars

\* the number of characters of a string of bytes: the two bytes of a
\* two-byte UTF-8 sequence are one character, every other byte is one
CharCount(s) ==
    Len(s) - Cardinality({i \in 1 .. (Len(s) - 1) :
                             s[i] \in 194 .. 223 /\ s[i + 1] \in 128 .. 191})

\* C19: ValidateFileID(id) is true exactly when id has 64 characters and
\* every one is a hexadecimal digit; it is false for the empty string, for
\* shorter and longer strings, and for 64 characters with a non-hex one.
C19_ValidateFileID ==
    call.fn = "ValidateFileID" =>
        /\ call.ret = TRUE <=>
                /\ CharCount(call.args[1]) = 64
                /\ \A i \in 1 .. Len(call.args[1]) :
                       \/ call.args[1][i] \in 48 .. 57
                       \/ call.args[1][i] \in {97, 98, 99, 100, 101, 102}
                       \/ call.args[1][i] \in {65, 66, 67, 68, 69, 70}
        /\ call.args[1] = <<>> => call.ret = FALSE
        /\ CharCount(call.args[1]) # 64 => call.ret = FALSE

\* 64 digits, an 'F' among them, are a valid id
C19_Witness ==
    /\ call.fn = "ValidateFileID"
    /\ Len(call.args[1]) = 64
    /\ call.args[1][64] = 70
    /\ call.args[1][1] = 98
    /\ call.ret = TRUE

\* C20: when GenerateRandomID(length) succeeds, the id has exactly `length`
\* characters, for every length >= 0, odd lengths included.
C20_RandomIDLength ==
    (call.fn = "GenerateRandomID" /\ call.args[1] >= 0 /\ call.ret.err = Nil) =>
        Len(call.ret.out) = call.args[1]

----------------------------------------------------------------------------
(* internal/storage: the chunk manager and the blob store, as section 4.4  *)
(* and 4.5 of the specification describe them.                             *)

\* the chunk size the chunk manager is constructed with
ChunkSize == 2
\* uploads and deletes fail at chunk 1 .. MaxFailAt, or not at all
MaxFailAt == 2
\* most entries of Server.files
MaxFiles == 1

ErrNotFound == "NotFound"
ErrIntegrity == "IntegrityMismatch"
ErrPartialWrite == "PartialWriteError"
ErrStorageIO == "StorageIOError"

\* the blob store after put(id, blob)
Put(bl, id, blob) ==
    [x \in DOMAIN bl \cup {id} |-> IF x = id THEN blob ELSE bl[x]]

\* the blob store after delete(id) of every id in ids; absent ids are no error
DeleteAll(bl, ids) == [x \in DOMAIN bl \ ids |-> bl[x]]

\* the ChunkRecord of the k-th chunk (index k - 1) of a file
ChunkRecord(fileID, k, chunk) ==
    [ID |-> GenerateChunkID(fileID, k - 1, chunk), Size |-> Len(chunk),
     Hash |-> CalculateHash(chunk), Index |-> k - 1]

\* the blob store after the first m chunks were sealed and put, in index order
RECURSIVE PutChunks(_, _, _, _, _, _)
PutChunks(bl, fileID, chunks, key, rnds, m) ==
    IF m = 0
    THEN bl
    ELSE Put(PutChunks(bl, fileID, chunks, key, rnds, m - 1),
             ChunkRecord(fileID, m, chunks[m]).ID,
             Encrypt(chunks[m], key, rnds[m]).out)

\* StoreFile(fileInfo, data): failAt = 0 when every put succeeds, else the
\* number of the chunk whose put fails.  Returns the error, the finalized
\* FileRecord and the blob store it leaves.
StoreChunks(info, data, key, rnds, failAt, bl, chunks) ==
    IF failAt \in 1 .. Len(chunks)
    THEN [err |-> ErrPartialWrite, info |-> info,
          store |-> DeleteAll(PutChunks(bl, info.ID, chunks, key, rnds, failAt - 1),
                              {ChunkRecord(info.ID, k, chunks[k]).ID :
                                   k \in 1 .. (failAt - 1)})]
    ELSE [err |-> Nil,
          info |-> [ID |-> info.ID, Size |-> Len(data),
                    Hash |-> CalculateHash(data), Name |-> info.Name,
                    Chunks |-> [k \in 1 .. Len(chunks) |->
                                   ChunkRecord(info.ID, k, chunks[k])]],
          store |-> PutChunks(bl, info.ID, chunks, key, rnds, Len(chunks))]

StoreFile(info, data, key, rnds, failAt, bl) ==
    StoreChunks(info, data, key, rnds, failAt, bl, SplitData(data, ChunkSize))

RECURSIVE RetrieveLoop(_, _, _, _, _)
\* the file-level check of the joined plaintext
RetrieveJoined(info, data) ==
    IF CalculateHash(data) = info.Hash THEN Ok(data) ELSE Fail(ErrIntegrity)

\* the chunk-level check of d, what Decrypt returned for chunk k
RetrieveOpened(info, key, bl, k, acc, d) ==
    IF d.err # Nil
    THEN Fail(d.err)
    ELSE IF CalculateHash(d.out) # info.Chunks[k].Hash
    THEN Fail(ErrIntegrity)
    ELSE RetrieveLoop(info, key, bl, k + 1, Append(acc, d.out))

\* RetrieveFile(fileRecord): chunks k .. are still to be read, acc holds the
\* verified plaintexts of the chunks before k
RetrieveLoop(info, key, bl, k, acc) ==
    IF k > Len(info.Chunks)
    THEN RetrieveJoined(info, JoinChunks(acc))
    ELSE IF info.Chunks[k].ID \notin DOMAIN bl
    THEN Fail(ErrNotFound)
    ELSE RetrieveOpened(info, key, bl, k, acc, Decrypt(bl[info.Chunks[k].ID], key))

RetrieveFile(info, key, bl) == RetrieveLoop(info, key, bl, 1, <<>>)

\* mutant: the delete of a blob that is not in the store is an error
DeleteFileStrict(info, failAt, bl) ==
    IF \E k \in 1 .. Len(info.Chunks) : info.Chunks[k].ID \notin DOMAIN bl
    THEN [err |-> ErrNotFound, store |-> bl]
    ELSE IF failAt \in 1 .. Len(info.Chunks)
    THEN [err |-> ErrStorageIO,
          store |-> DeleteAll(bl, {info.Chunks[k].ID : k \in 1 .. (failAt - 1)})]
    ELSE [err |-> Nil,
          store |-> DeleteAll(bl, {info.Chunks[k].ID : k \in 1 .. Len(info.Chunks)})]

\* DeleteFile(fileRecord): failAt = 0 when every blob delete succeeds, else
\* the number of the chunk whose delete fails, the ones before it being gone
DeleteFile(info, failAt, bl) ==
    IF failAt \in 1 .. Len(info.Chunks)
    THEN [err |-> ErrStorageIO,
          store |-> DeleteAll(bl, {info.Chunks[k].ID : k \in 1 .. (failAt - 1)})]
    ELSE [err |-> Nil,
          store |-> DeleteAll(bl, {info.Chunks[k].ID : k \in 1 .. Len(info.Chunks)})]
----------------------------------------------------------------------------
(* internal/api: the file handlers of the API server, one request at a time *)

\* the lengths of the contents uploaded: empty, one full chunk, and two full
\* chunks with a remainder of one byte
FileLens == {0, ChunkSize, 2 * ChunkSize + 1}
\* the file names and contents uploaded; a content alternates the two byte
\* values, starting with 1
FileNames == {<<0>>, <<0, 1>>}
FileContents == {[i \in 1 .. n |-> i % 2] : n \in FileLens}
\* the ids a request can name
FileIDs == {GenerateFileID(name, data) : name \in FileNames, data \in FileContents}
\* the random source of one StoreFile: the nonce of chunk k is seed + k mod 2
NoncesOf(seed) == [k \in 1 .. (2 * ChunkSize + 1) |-> <<FALSE, KeyOf(NonceSize, (seed + k) % 2)>>]

Response(op, status, id, body) ==
    [op |-> op, id |-> id, status |-> status, body |-> body]

\* while a request is served, `call` is the call the handler made to the
\* chunk manager and the error it returned, NoCall when it made none
ManagerCall(fn, err) == [fn |-> fn, ret |-> [err |-> err]]

\* NewServer, after main has validated the configuration and drawn the key
Init ==
    /\ call = NoCall
    /\ IdleIds
    /\ files = <<>>
    /\ blobs = <<>>
    /\ stored = <<>>
    /\ resp = [op |-> "none"]
    /\ encKey \in GoodKeys
    /\ tampered = <<>>
    /\ handlers = <<>>
    /\ heap = <<>>
    /\ main = <<>>

\* mutant: the FileInfo is put into the map before the error of StoreFile is
\* looked at
uploadRespondRecordFirst(id, data, st) ==
    /\ call' = ManagerCall("StoreFile", st.err)
    /\ IF st.err # Nil
       THEN /\ resp' = Response("upload", 500, id, data)
            /\ blobs' = st.store
            /\ files' = Put(files, id, [ID |-> id, Size |-> 0, Hash |-> <<>>,
                                        Name |-> st.info.Name, Chunks |-> <<>>])
            /\ UNCHANGED stored
       ELSE /\ files' = Put(files, id, st.info)
            /\ blobs' = st.store
            /\ stored' = Put(stored, id, data)
            /\ resp' = Response("upload", 200, id, data)

\* mutant: the error of StoreFile is logged and the upload is answered as a
\* success
uploadRespondIgnoreError(id, data, st) ==
    /\ call' = ManagerCall("StoreFile", st.err)
    /\ files' = Put(files, id, [ID |-> id, Size |-> Len(data), Hash |-> <<>>,
                                Name |-> st.info.Name, Chunks |-> <<>>])
    /\ blobs' = st.store
    /\ stored' = Put(stored, id, data)
    /\ resp' = Response("upload", 200, id, data)

\* the end of uploadFile: st is what StoreFile returned.  The id and body
\* kept with an upload response are those of the request.
uploadRespond(id, data, st) ==
    /\ call' = ManagerCall("StoreFile", st.err)
    /\ IF st.err # Nil
       THEN /\ resp' = Response("upload", 500, id, data)
            /\ blobs' = st.store
            /\ UNCHANGED <<files, stored>>
       ELSE /\ files' = Put(files, id, st.info)
            /\ blobs' = st.store
            /\ stored' = Put(stored, id, data)
            /\ resp' = Response("upload", 200, id, data)

\* the middle of uploadFile: the FileInfo is built and StoreFile is called
uploadStore(id, name, data, seed, failAt) ==
    /\ id \in DOMAIN files \/ Cardinality(DOMAIN files) < MaxFiles
    /\ uploadRespond(id, data, StoreFile([ID |-> id, Name |-> name], data, encKey,
                                         NoncesOf(seed), failAt, blobs))

\* POST /files.  fault is what goes wrong: "form" (no file part), "read"
\* (the body cannot be read), or nothing; failAt is the chunk whose put fails
uploadFile ==
    /\ \E fault \in {"none", "form", "read"} :
        IF fault = "form"
        THEN /\ resp' = Response("upload", 400, <<>>, <<>>)
             /\ call' = NoCall
             /\ UNCHANGED <<files, blobs, stored>>
        ELSE IF fault = "read"
        THEN /\ resp' = Response("upload", 500, <<>>, <<>>)
             /\ call' = NoCall
             /\ UNCHANGED <<files, blobs, stored>>
        ELSE \E name \in FileNames, data \in FileContents, seed \in Byte :
             \E failAt \in 0 .. Min(MaxFailAt, Len(SplitData(data, ChunkSize))) :
                uploadStore(GenerateFileID(name, data), name, data, seed, failAt)
    /\ UNCHANGED <<first, hasher, encKey, tampered, heap, handlers, main>>

\* the end of downloadFile: got is what RetrieveFile returned
downloadRespond(id, got) ==
    /\ call' = ManagerCall("RetrieveFile", got.err)
    /\ IF got.err # Nil
       THEN resp' = Response("download", 500, id, <<>>)
       ELSE resp' = Response("download", 200, id,
                             SubSeq(got.out, 1, Min(files[id].Size, Len(got.out))))

\* GET /files/:id.  The body sent is limited to the Content-Length, which is
\* fileInfo.Size
downloadFile ==
    \E id \in FileIDs :
        /\ IF id \notin DOMAIN files
           THEN /\ resp' = Response("download", 404, id, <<>>)
                /\ call' = NoCall
           ELSE downloadRespond(id, RetrieveFile(files[id], encKey, blobs))
        /\ UNCHANGED <<first, hasher, files, blobs, stored, encKey, tampered, heap,
                       handlers, main>>

\* mutant: the entry is removed from the map before DeleteFile is called
deleteRespondRemoveFirst(id, del) ==
    /\ call' = ManagerCall("DeleteFile", del.err)
    /\ files' = DeleteAll(files, {id})
    /\ stored' = DeleteAll(stored, {id})
    /\ blobs' = del.store
    /\ resp' = Response("delete", IF del.err # Nil THEN 500 ELSE 200, id, <<>>)

\* the end of deleteFile: del is what DeleteFile returned
deleteRespond(id, del) ==
    /\ call' = ManagerCall("DeleteFile", del.err)
    /\ IF del.err # Nil
       THEN /\ resp' = Response("delete", 500, id, <<>>)
            /\ blobs' = del.store
            /\ UNCHANGED <<files, stored>>
       ELSE /\ files' = DeleteAll(files, {id})
            /\ stored' = DeleteAll(stored, {id})
            /\ blobs' = del.store
            /\ resp' = Response("delete", 200, id, <<>>)

\* mutant: DeleteFile is called before the id is looked up
deleteFileCallFirst ==
    \E id \in FileIDs :
        /\ IF id \notin DOMAIN files
           THEN /\ resp' = Response("delete", 404, id, <<>>)
                /\ call' = ManagerCall("DeleteFile", Nil)
                /\ UNCHANGED <<files, blobs, stored>>
           ELSE \E failAt \in 0 .. Min(MaxFailAt, Len(files[id].Chunks)) :
                deleteRespond(id, DeleteFile(files[id], failAt, blobs))
        /\ UNCHANGED <<first, hasher, encKey, tampered, heap, handlers, main>>

\* DELETE /files/:id.  failAt is the chunk whose blob delete fails, 0 for none
deleteFile ==
    \E id \in FileIDs :
        /\ IF id \notin DOMAIN files
           THEN /\ resp' = Response("delete", 404, id, <<>>)
                /\ call' = NoCall
                /\ UNCHANGED <<files, blobs, stored>>
           ELSE \E failAt \in 0 .. Min(MaxFailAt, Len(files[id].Chunks)) :
                deleteRespond(id, DeleteFile(files[id], failAt, blobs))
        /\ UNCHANGED <<first, hasher, encKey, tampered, heap, handlers, main>>

\* GET /files: the body is the count reported, the number of entries the
\* range over the map visits
listFiles ==
    /\ resp' = Response("list", 200, <<>>, <<Cardinality(DOMAIN files)>>)
    /\ call' = NoCall
    /\ UNCHANGED <<first, hasher, files, blobs, stored, encKey, tampered, heap, handlers, main>>

\* GET /files/:id/info: the body is the ID of the FileInfo the map holds
getFileInfo ==
    \E id \in FileIDs :
        /\ IF id \notin DOMAIN files
           THEN resp' = Response("info", 404, id, <<>>)
           ELSE resp' = Response("info", 200, id, files[id].ID)
        /\ call' = NoCall
        /\ UNCHANGED <<first, hasher, files, blobs, stored, encKey, tampered, heap,
                       handlers, main>>

Next == uploadFile \/ downloadFile \/ deleteFile \/ listFiles \/ getFileInfo

Spec == Init /\ [][Next]_vars

----------------------------------------------------------------------------
(* A persisted blob is changed behind the server: files are uploaded, then  *)
(* one byte of one chunk blob of a recorded file is changed in the blob     *)
(* store, then files are downloaded.                                        *)

\* tampered becomes <<file id, chunk number, position, intact>>; intact tells
\* whether RetrieveFile of the file succeeded before the byte was changed
tamper ==
    /\ tampered = <<>>
    /\ \E id \in DOMAIN files :
        \E k \in 1 .. Len(files[id].Chunks) :
            /\ files[id].Chunks[k].ID \in DOMAIN blobs
            /\ \E p \in 1 .. Len(blobs[files[id].Chunks[k].ID]) :
                /\ blobs' = Put(blobs, files[id].Chunks[k].ID,
                                Modified(blobs[files[id].Chunks[k].ID], p))
                /\ tampered' = <<id, k, p,
                                 RetrieveFile(files[id], encKey, blobs).err = Nil>>
    /\ UNCHANGED <<call, first, hasher, files, stored, resp, encKey, handlers, heap, main>>

\* uploads stop once a file is recorded, so no file is stored twice
NextTamper ==
    \/ tampered = <<>> /\ files = <<>> /\ uploadFile
    \/ tamper
    \/ downloadFile

SpecTamper == Init /\ [][NextTamper]_vars

----------------------------------------------------------------------------
(* Calls of the chunk manager itself: a file is stored into the empty blob  *)
(* store, and the record StoreFile returned is deleted, again and again.    *)

ManagerStored(info, data, failAt, st) ==
    /\ call' = [fn |-> "StoreFile", ret |-> [err |-> st.err, info |-> st.info],
                args |-> <<info, data, failAt>>]
    /\ blobs' = st.store

CallStoreFile ==
    /\ blobs = <<>>
    /\ \E name \in FileNames, data \in FileContents, seed \in Byte :
       \E failAt \in 0 .. Min(MaxFailAt, Len(SplitData(data, ChunkSize))) :
            ManagerStored([ID |-> GenerateFileID(name, data), Name |-> name], data,
                          failAt,
                          StoreFile([ID |-> GenerateFileID(name, data), Name |-> name],
                                    data, encKey, NoncesOf(seed), failAt, blobs))
    /\ UNCHANGED <<first, hasher, files, stored, resp, encKey, tampered, heap, handlers, main>>

\* `from` keeps the function and the error of the call before
ManagerDeleted(info, failAt, del) ==
    /\ call' = [fn |-> "DeleteFile", ret |-> [err |-> del.err],
                args |-> <<info, failAt>>, from |-> <<call.fn, call.ret.err>>]
    /\ blobs' = del.store

CallDeleteFile ==
    /\ \/ call.fn = "StoreFile" /\ call.ret.err = Nil
       \/ call.fn = "DeleteFile"
    /\ \E failAt \in 0 .. MaxFailAt :
            IF call.fn = "StoreFile"
            THEN ManagerDeleted(call.ret.info, failAt,
                                DeleteFile(call.ret.info, failAt, blobs))
            ELSE ManagerDeleted(call.args[1], failAt,
                                DeleteFile(call.args[1], failAt, blobs))
    /\ UNCHANGED <<first, hasher, files, stored, resp, encKey, tampered, heap, handlers, main>>

NextManager == CallStoreFile \/ CallDeleteFile

SpecManager == Init /\ [][NextManager]_vars

----------------------------------------------------------------------------
(* The handlers as goroutines.  gin runs every request in a goroutine of   *)
(* its own and the Server holds no lock, so a handler is a sequence of      *)
(* steps that interleave with the steps of the other handlers: the call and *)
(* the return of a chunk manager method, and the begin and the end of an    *)
(* access to the map s.files.  A handler is <<op, at, id, x>>: the request, *)
(* where it stands, the file id, and what it holds.                         *)

\* goroutines serving requests at the same time
NumHandlers == 2
Handlers == 1 .. NumHandlers

\* the uploads of the concurrent requests carry the same name; the content
\* is empty or two chunks
ConcName == <<0>>
ConcContents == {[i \in 1 .. n |-> i % 2] : n \in {0, ChunkSize + 1}}
ConcIDs == {GenerateFileID(ConcName, data) : data \in ConcContents}

IdleHandler == <<"", "idle", <<>>, <<>>>>
At(h) == handlers[h][2]
Goto(h, t) == handlers' = [handlers EXCEPT ![h] = t]

InitConc ==
    /\ call = NoCall
    /\ IdleIds
    /\ files = <<>>
    /\ blobs = <<>>
    /\ stored = <<>>
    /\ resp = [op |-> "none"]
    /\ encKey \in GoodKeys
    /\ tampered = <<>>
    /\ handlers = [h \in Handlers |-> IdleHandler]
    /\ heap = <<>>
    /\ main = <<>>

\* uploadFile up to the call of StoreFile: the form is parsed, the body read
\* and the id computed
uploadFileCall(h) ==
    /\ At(h) = "idle"
    /\ \E data \in ConcContents :
       \E failAt \in 0 .. Min(MaxFailAt, Len(SplitData(data, ChunkSize))) :
            Goto(h, <<"upload", "StoreFile", GenerateFileID(ConcName, data),
                      <<data, failAt>>>>)
    /\ UNCHANGED <<call, first, hasher, files, blobs, stored, resp, encKey, tampered, heap, main>>

\* StoreFile returns st; on success the handler starts to write the map
uploadFileStored(h, st) ==
    /\ blobs' = st.store
    /\ IF st.err # Nil
       THEN /\ Goto(h, IdleHandler)
            /\ resp' = Response("upload", 500, handlers[h][3], handlers[h][4][1])
       ELSE /\ Goto(h, <<"upload", "write", handlers[h][3],
                         <<st.info, handlers[h][4][1]>>>>)
            /\ UNCHANGED resp

\* the nonces of a handler's StoreFile start at the handler's number
uploadFileReturn(h) ==
    /\ At(h) = "StoreFile"
    /\ uploadFileStored(h, StoreFile([ID |-> handlers[h][3], Name |-> ConcName],
                                     handlers[h][4][1], encKey, NoncesOf(h),
                                     handlers[h][4][2], blobs))
    /\ UNCHANGED <<call, first, hasher, files, stored, encKey, tampered, heap, main>>

\* s.files[fileInfo.ID] = fileInfo has been done
uploadFilePut(h) ==
    /\ At(h) = "write"
    /\ files' = Put(files, handlers[h][3], handlers[h][4][1])
    /\ stored' = Put(stored, handlers[h][3], handlers[h][4][2])
    /\ resp' = Response("upload", 200, handlers[h][3], handlers[h][4][2])
    /\ Goto(h, IdleHandler)
    /\ UNCHANGED <<call, first, hasher, blobs, encKey, tampered, heap, main>>

\* a handler starts to read the map: downloadFile, deleteFile and
\* getFileInfo look an id up; listFiles, getNodeInfo and getNodeStats range
\* over the map or take its length
filesReadBegin(h) ==
    /\ At(h) = "idle"
    /\ \/ \E op \in {"download", "delete", "info"}, id \in ConcIDs :
            Goto(h, <<op, "read", id, <<>>>>)
       \/ \E op \in {"list", "nodeInfo", "nodeStats"} :
            Goto(h, <<op, "read", <<>>, <<>>>>)
    /\ UNCHANGED <<call, first, hasher, files, blobs, stored, resp, encKey, tampered, heap, main>>

\* the read of the map has been done: an absent id is answered 404;
\* downloadFile and deleteFile go on to call the chunk manager with the
\* FileInfo the map holds
filesReadEnd(h) ==
    /\ At(h) = "read"
    /\ IF handlers[h][1] \in {"list", "nodeInfo", "nodeStats"}
       THEN /\ Goto(h, IdleHandler)
            /\ resp' = Response(handlers[h][1], 200, <<>>, <<>>)
       ELSE IF handlers[h][3] \notin DOMAIN files
       THEN /\ Goto(h, IdleHandler)
            /\ resp' = Response(handlers[h][1], 404, handlers[h][3], <<>>)
       ELSE IF handlers[h][1] = "info"
       THEN /\ Goto(h, IdleHandler)
            /\ resp' = Response("info", 200, handlers[h][3], <<>>)
       ELSE /\ Goto(h, <<handlers[h][1],
                         IF handlers[h][1] = "download" THEN "RetrieveFile"
                                                        ELSE "DeleteFile",
                         handlers[h][3], files[handlers[h][3]]>>)
            /\ UNCHANGED resp
    /\ UNCHANGED <<call, first, hasher, files, blobs, stored, encKey, tampered, heap, main>>

downloadFileRetrieved(h, got) ==
    /\ Goto(h, IdleHandler)
    /\ IF got.err # Nil
       THEN resp' = Response("download", 500, handlers[h][3], <<>>)
       ELSE resp' = Response("download", 200, handlers[h][3],
                             SubSeq(got.out, 1, Min(handlers[h][4].Size, Len(got.out))))

downloadFileReturn(h) ==
    /\ At(h) = "RetrieveFile"
    /\ downloadFileRetrieved(h, RetrieveFile(handlers[h][4], encKey, blobs))
    /\ UNCHANGED <<call, first, hasher, files, blobs, stored, encKey, tampered, heap, main>>

\* DeleteFile returns del; on success the handler starts to delete from the map
deleteFileDeleted(h, del) ==
    /\ blobs' = del.store
    /\ IF del.err # Nil
       THEN /\ Goto(h, IdleHandler)
            /\ resp' = Response("delete", 500, handlers[h][3], <<>>)
       ELSE /\ Goto(h, <<"delete", "delete", handlers[h][3], <<>>>>)
            /\ UNCHANGED resp

deleteFileReturn(h) ==
    /\ At(h) = "DeleteFile"
    /\ \E failAt \in 0 .. Min(MaxFailAt, Len(handlers[h][4].Chunks)) :
            deleteFileDeleted(h, DeleteFile(handlers[h][4], failAt, blobs))
    /\ UNCHANGED <<call, first, hasher, files, stored, encKey, tampered, heap, main>>

\* delete(s.files, fileID) has been done
deleteFileRemove(h) ==
    /\ At(h) = "delete"
    /\ files' = DeleteAll(files, {handlers[h][3]})
    /\ stored' = DeleteAll(stored, {handlers[h][3]})
    /\ resp' = Response("delete", 200, handlers[h][3], <<>>)
    /\ Goto(h, IdleHandler)
    /\ UNCHANGED <<call, first, hasher, blobs, encKey, tampered, heap, main>>

\* two handlers are inside the map at once and one of them writes it
MapRace ==
    \E g, h \in Handlers :
        /\ g # h
        /\ At(g) \in {"write", "delete"}
        /\ At(h) \in {"read", "write", "delete"}

\* the Go runtime may notice the unsynchronized map access and end the
\* process ("fatal error: concurrent map writes"); when it does not, the
\* accesses take effect one after the other
fatalMapRace ==
    /\ MapRace
    /\ handlers' = [h \in Handlers |-> <<"", "fatal", <<>>, <<>>>>]
    /\ UNCHANGED <<call, first, hasher, files, blobs, stored, resp, encKey, tampered, heap, main>>

\* two handlers assign different keys at once and take the same free slot
\* of the map: the slot ends with the key written by one of them and the
\* FileInfo pointer written by the other
tornMapWrite ==
    /\ \E g, h \in Handlers :
        /\ At(g) = "write" /\ At(h) = "write"
        /\ handlers[g][3] # handlers[h][3]
        /\ files' = Put(files, handlers[h][3], handlers[g][4][1])
        /\ stored' = Put(stored, handlers[h][3], handlers[g][4][2])
        /\ resp' = Response("upload", 200, handlers[h][3], handlers[h][4][2])
        /\ handlers' = [handlers EXCEPT ![g] = IdleHandler, ![h] = IdleHandler]
    /\ UNCHANGED <<call, first, hasher, blobs, encKey, tampered, heap, main>>

NextConc ==
    \/ \E h \in Handlers : uploadFileCall(h)
    \/ \E h \in Handlers : uploadFileReturn(h)
    \/ \E h \in Handlers : uploadFilePut(h)
    \/ \E h \in Handlers : filesReadBegin(h)
    \/ \E h \in Handlers : filesReadEnd(h)
    \/ \E h \in Handlers : downloadFileReturn(h)
    \/ \E h \in Handlers : deleteFileReturn(h)
    \/ \E h \in Handlers : deleteFileRemove(h)
    \/ fatalMapRace
    \/ tornMapWrite

SpecConc == InitConc /\ [][NextConc]_vars

----------------------------------------------------------------------------
(* Claims about the API server *)

ChunkIDsOf(id, data) ==
    {GenerateChunkID(id, k - 1, SplitData(data, ChunkSize)[k]) :
         k \in 1 .. Len(SplitData(data, ChunkSize))}

\* the step was an upload whose StoreFile failed
StoreFailed == resp'.op = "upload" /\ resp'.status = 500 /\ resp'.id # <<>>

C15_NoMissingBlob ==
    \A id \in DOMAIN files :
        \A k \in 1 .. Len(files[id].Chunks) :
            files[id].Chunks[k].ID \in DOMAIN blobs

\* C13: after a single byte of a persisted sealed chunk blob of a stored
\* file was changed, RetrieveFile of that file fails with the authentication
\* failure or the integrity mismatch; it never returns a plaintext other
\* than the stored one.
C13_TamperDetected ==
    tampered # <<>> =>
        /\ tampered[4] =>
                RetrieveFile(files[tampered[1]], encKey, blobs).err
                    \in {ErrOpen, ErrIntegrity}
        /\ RetrieveFile(files[tampered[1]], encKey, blobs).err = Nil =>
                RetrieveFile(files[tampered[1]], encKey, blobs).out
                    = stored[tampered[1]]
        /\ (resp.op = "download" /\ resp.status = 200) =>
                resp.body = stored[resp.id]

\* the first ciphertext byte of the second chunk of an intact file of three
\* chunks was changed, and the download of the file was refused
C13_Witness ==
    /\ tampered # <<>>
    /\ tampered[2] = 2
    /\ tampered[3] = NonceSize + 1
    /\ tampered[4]
    /\ Len(files[tampered[1]].Chunks) = 3
    /\ resp.op = "download"
    /\ resp.id = tampered[1]
    /\ resp.status = 500

\* C14: DeleteFile called twice on the same file record succeeds both
\* times, without an error on the second call, and after either call the
\* blob store holds none of the chunks of the record.  (failAt = 0: no blob
\* delete fails for a reason of the storage.)
C14_IdempotentDelete ==
    (call.fn = "DeleteFile" /\ call.args[2] = 0) =>
        /\ call.ret.err = Nil
        /\ \A k \in 1 .. Len(call.args[1].Chunks) :
                call.args[1].Chunks[k].ID \notin DOMAIN blobs

\* a record of three chunks has been deleted a second time after a first
\* DeleteFile that succeeded
C14_Witness ==
    /\ call.fn = "DeleteFile"
    /\ call.from = <<"DeleteFile", Nil>>
    /\ call.args[2] = 0
    /\ Len(call.args[1].Chunks) = 3
    /\ call.ret.err = Nil

\* C16: the API server never has two StoreFile calls for the same file id
\* in flight at the same time, whatever the interleaving of concurrent
\* uploads of the same name and content.
C16_StoresSerialized ==
    \A g, h \in Handlers :
        (g # h /\ At(g) = "StoreFile" /\ At(h) = "StoreFile") =>
            handlers[g][3] # handlers[h][3]

\* C17: in no interleaving of the request handlers are two handlers inside
\* the metadata map at the same time when one of them writes it.
C17_MapSerialized == ~MapRace

\* C22: the upload handler records a metadata entry exactly when StoreFile
\* returned success; on an invalid form, an unreadable body or a failed
\* StoreFile the map is unchanged and the status is 400 or 500, never 200.
C22_RecordIffStored ==
    [][resp'.op = "upload" =>
            /\ resp'.status = 200 <=> (call'.fn = "StoreFile" /\ call'.ret.err = Nil)
            /\ resp'.status = 200 =>
                    /\ resp'.id \in DOMAIN files'
                    /\ files'[resp'.id].ID = resp'.id
                    /\ DeleteAll(files', {resp'.id}) = DeleteAll(files, {resp'.id})
            /\ resp'.status # 200 =>
                    /\ resp'.status \in {400, 500}
                    /\ files' = files]_vars

\* a stored file was uploaded again and StoreFile failed: the answer is 500
\* and the map still holds the earlier entry
C22_Witness ==
    /\ resp.op = "upload"
    /\ resp.status = 500
    /\ call.fn = "StoreFile"
    /\ call.ret.err = ErrPartialWrite
    /\ resp.id \in DOMAIN files
    /\ files[resp.id].Size = 2 * ChunkSize + 1

\* C23: the delete handler removes the metadata entry only after DeleteFile
\* returned success: when DeleteFile fails the answer is 500 and the map is
\* unchanged, the entry still present; when it succeeds the entry is gone,
\* and download, info and delete of an id without entry answer 404, an
\* entry coming back only by an upload of that id.
C23_RemoveAfterDelete ==
    [][/\ resp'.op = "delete" =>
            /\ (call'.fn = "DeleteFile" /\ call'.ret.err # Nil) =>
                    /\ resp'.status = 500
                    /\ files' = files
                    /\ resp'.id \in DOMAIN files'
            /\ (call'.fn = "DeleteFile" /\ call'.ret.err = Nil) =>
                    /\ resp'.status = 200
                    /\ resp'.id \in DOMAIN files
                    /\ files' = DeleteAll(files, {resp'.id})
            /\ files' # files => (call'.fn = "DeleteFile" /\ call'.ret.err = Nil)
       /\ (resp'.op \in {"download", "info", "delete"} /\ resp'.id \notin DOMAIN files) =>
            resp'.status = 404
       /\ \A id \in DOMAIN files' \ DOMAIN files :
            resp'.op = "upload" /\ resp'.id = id /\ resp'.status = 200]_vars

\* the delete of the second chunk blob of a stored file failed: the answer
\* is 500, the first blob is gone and the entry is still in the map
C23_Witness ==
    /\ resp.op = "delete"
    /\ resp.status = 500
    /\ call.fn = "DeleteFile"
    /\ call.ret.err = ErrStorageIO
    /\ resp.id \in DOMAIN files
    /\ Len(files[resp.id].Chunks) = 3
    /\ files[resp.id].Chunks[1].ID \notin DOMAIN blobs
    /\ files[resp.id].Chunks[2].ID \in DOMAIN blobs

\* C24: for an id with no entry in the metadata map the download, delete
\* and info handlers answer 404, make no call to the chunk manager, and
\* leave the map and the blob store unchanged.
C24_NotFoundNoCall ==
    [][(resp'.op \in {"download", "delete", "info"} /\ resp'.id \notin DOMAIN files) =>
            /\ resp'.status = 404
            /\ call' = NoCall
            /\ files' = files
            /\ blobs' = blobs]_vars

\* a file is stored and the delete of another id was answered 404
C24_Witness ==
    /\ resp.op = "delete"
    /\ resp.status = 404
    /\ call = NoCall
    /\ resp.id \notin DOMAIN files
    /\ files # <<>>
    /\ blobs # <<>>

----------------------------------------------------------------------------
(* internal/config and cmd: the entry points of the API server and of the  *)
(* storage node.  A configuration is <<Node.ChunkSize, Node.Replicas,      *)
(* API.Port, Storage.MaxFileSize>>; main is <<program, position,           *)
(* configuration, chunk managers constructed>>, a chunk manager being its   *)
(* chunk size.                                                             *)

\* largest chunk size, replicas count and max file size a configuration holds
MaxSetting == 2
\* the largest API port
MaxPort == 65535

ErrChunkSize == "invalid chunk size"
ErrReplicas == "invalid replicas count"
ErrPort == "invalid API port"
ErrMaxFileSize == "invalid max file size"

\* mutant: the chunk size is not validated
ValidateNoChunkSize(c) ==
    IF c[2] <= 0 THEN ErrReplicas
    ELSE IF c[3] <= 0 \/ c[3] > MaxPort THEN ErrPort
    ELSE IF c[4] <= 0 THEN ErrMaxFileSize
    ELSE Nil

\* Config.Validate: the error returned, Nil for none
Validate(c) ==
    IF c[1] <= 0 THEN ErrChunkSize
    ELSE IF c[2] <= 0 THEN ErrReplicas
    ELSE IF c[3] <= 0 \/ c[3] > MaxPort THEN ErrPort
    ELSE IF c[4] <= 0 THEN ErrMaxFileSize
    ELSE Nil

\* what LoadConfig can return: the file and the environment set any value
Settings == (0 - 1) .. MaxSetting
Ports == {0 - 1, 0, 1, 8080, MaxPort, MaxPort + 1}
Configs == Settings \X Settings \X Ports \X Settings

InitMain ==
    /\ call = NoCall
    /\ IdleIds
    /\ files = <<>>
    /\ blobs = <<>>
    /\ stored = <<>>
    /\ resp = [op |-> "none"]
    /\ encKey = <<>>
    /\ tampered = <<>>
    /\ handlers = <<>>
    /\ heap = <<>>
    /\ main \in {<<program, "start", <<>>, <<>>>> : program \in {"api", "node"}}

\* `call` is the call main made last and the error it returned
Returns(fn, err) == [fn |-> fn, ret |-> [err |-> err]]

mainFrame == UNCHANGED <<first, hasher, files, blobs, stored, resp, encKey, tampered,
                         handlers, heap>>

\* log.Fatalf ends the process
Fatalf == main' = <<main[1], "exit", main[3], main[4]>>

\* cfg, err := config.LoadConfig(configFile)
mainLoadConfig ==
    /\ main[2] = "start"
    /\ \/ Fatalf /\ call' = Returns("LoadConfig", "failed to read config file")
       \/ \E cfg \in Configs :
            /\ main' = <<main[1], "loaded", cfg, main[4]>>
            /\ call' = Returns("LoadConfig", Nil)
    /\ mainFrame

\* cfg.Validate(): `call` keeps the error it returned
mainValidate ==
    /\ main[2] = "loaded"
    /\ call' = Returns("Validate", Validate(main[3]))
    /\ IF Validate(main[3]) # Nil
       THEN Fatalf
       ELSE main' = <<main[1], "validated", main[3], main[4]>>
    /\ mainFrame

\* storage.NewFileStorage and crypto.GenerateKey, either of which may fail
mainStorageAndKey ==
    /\ main[2] = "validated"
    /\ \/ Fatalf /\ call' = Returns("NewFileStorage", ErrStorageIO)
       \/ Fatalf /\ call' = Returns("GenerateKey", ErrRand)
       \/ /\ main' = <<main[1], "key", main[3], main[4]>>
          /\ call' = Returns("GenerateKey", Nil)
    /\ mainFrame

\* storage.NewChunkManager(fileStorage, encKey, cfg.Node.ChunkSize, logger);
\* the API server then serves, the storage node waits for a signal
mainNewChunkManager ==
    /\ main[2] = "key"
    /\ main' = <<main[1], IF main[1] = "api" THEN "serving" ELSE "waiting",
                 main[3], Append(main[4], main[3][1])>>
    /\ call' = Returns("NewChunkManager", Nil)
    /\ mainFrame

NextMain ==
    mainLoadConfig \/ mainValidate \/ mainStorageAndKey \/ mainNewChunkManager

SpecMain == InitMain /\ [][NextMain]_vars

\* C26: the chunk manager is never constructed with a chunk size <= 0: the
\* API server and the storage node construct it only after LoadConfig and
\* Validate succeeded, and Validate returns an error whenever the chunk size
\* is <= 0, as it does for replicas <= 0, an API port outside 1 .. 65535 and
\* a max file size <= 0.
C26_ChunkSizePositive ==
    /\ \A k \in 1 .. Len(main[4]) : main[4][k] > 0
    /\ main[2] \in {"serving", "waiting"} =>
            /\ main[4] = <<main[3][1]>>
            /\ main[3][1] > 0 /\ main[3][2] > 0 /\ main[3][4] > 0
            /\ main[3][3] \in 1 .. 65535
    /\ call.fn = "Validate" =>
            /\ main[3][1] <= 0 => call.ret.err # Nil
            /\ call.ret.err # Nil <=>
                    \/ main[3][1] <= 0
                    \/ main[3][2] <= 0
                    \/ main[3][3] \notin 1 .. 65535
                    \/ main[3][4] <= 0
            /\ call.ret.err # Nil => main[2] = "exit" /\ main[4] = <<>>

\* the storage node has constructed its chunk manager with the largest
\* chunk size, on the largest port
C26_Witness ==
    /\ main[1] = "node"
    /\ main[2] = "waiting"
    /\ main[4] = <<MaxSetting>>
    /\ main[3] = <<MaxSetting, 1, 65535, 1>>

====
